---- MODULE Spec2Model ----
(***************************************************************************)
(* GasFeeController (src/src/ComposableController.ts, lines 190-339): the  *)
(* reference-counted poller of gas fee estimates.                          *)
(*                                                                         *)
(* Execution is single-threaded JavaScript: every action below is one run  *)
(* of synchronous code between two suspension points.  The suspension      *)
(* points of the controller are                                            *)
(*   - `await this.fetchGasEstimates()`           (line 266), and          *)
(*   - `await this._fetchGasFeeEstimateData()`    (line 250),              *)
(* so a getGasFeeEstimatesAndStartPolling call that fetches is three       *)
(* steps: the call itself, fetchSettle and startResume.                    *)
(*                                                                         *)
(* The fetch collaborator is this.fetchGasEstimates (line 266).  The       *)
(* constructor accepts it (line 222) and never stores it, so what the call *)
(* yields depends on who sets the field: the model lets every call either  *)
(* resolve with a payload or fail.                                         *)
(***************************************************************************)
EXTENDS Integers, Sequences, FiniteSets, TLC

(* ---- bounds of the model ---- *)
NumChildren == 3     \* child controllers that exist
MaxList == 2         \* length of a controllers list
MaxSubs == 2         \* listeners the composite holds on one child
MaxPending == 2      \* calls suspended on an await at the same time
MaxFetch == 4        \* calls of the fetch collaborator in one behaviour
MaxPollCount == 3    \* upper cap of pollCount
MaxUnderflow == 2    \* pollCount is explored down to -MaxUnderflow
MaxTokens == 2       \* length of a token list
MaxTokenPending == 2 \* refreshes of token rates suspended at the same time
MaxTokenFetch == 3   \* calls of fetchExchangeRate in one behaviour
NumListeners == 3    \* listeners of the message bus

VARIABLES
    state,        \* BaseController.state: the snapshot (GasFeeState)
    pollCount,    \* GasFeeController.pollCount
    intervalId,   \* GasFeeController.intervalId (NoHandle = undefined)
    timers,       \* handles of the setInterval timers that are armed
    pending,      \* suspended calls, in the order they were suspended
    fetchCount,   \* number of calls of the fetch collaborator so far
    destroyed,    \* BaseController.destroy() has run
    ev,           \* history: the step taken last
    scen,         \* history: progress of the start-then-stop scenario
    idleSinceStop, \* history: a stop reached 0 and start was not called since
    pendOld,      \* history: pendOld[i] iff pending[i] was already suspended
                  \* when pollCount last returned to 0 (stop or destroy)
    stateAge,     \* history: where the snapshot in the state comes from,
                  \* relative to the last return of pollCount to 0
    quietSinceDestroy, \* history: destroy has run and start was not called since
    ret,          \* history: what the start call that returned last returned
    mirror,       \* the snapshot a stateChange subscriber received last
    patches,      \* history: the Patch of the update of the last step
    published     \* history: stateChange publishes of the last step

VARIABLES
    internalControllers, \* ComposableController.internalControllers
    context,      \* ComposableController.context: name -> child
    composed,     \* ComposableController.state: name -> child state
    childState,   \* the state of every child controller
    childSubs,    \* per child, the listeners the composite subscribed to it
    cev           \* history: the step of the composite taken last

VARIABLES
    handle,       \* TokenRatesController.handle (NoHandle = undefined)
    tokenTimers,  \* the armed setInterval timers: handle and interval
    tokenList,    \* TokenRatesController.tokenList
    disabled,     \* BaseController.disabled of the TokenRatesController
    contractExchangeRates, \* state.contractExchangeRates
    tokenPending, \* updateExchangeRates calls suspended on their fetch
    tokenFetchCount, \* number of calls of fetchExchangeRate so far
    lastInterval, \* history: the interval most recently set
    tickFailed,   \* history: a refresh started by a tick has failed
    ratesSerial,  \* history: the refresh (by order of start) whose rates
                  \* the state holds; 0 for the default rates
    tev           \* history: the step of the controller taken last

tvars == <<handle, tokenTimers, tokenList, disabled, contractExchangeRates,
           tokenPending, tokenFetchCount, lastInterval, tickFailed,
           ratesSerial, tev>>

VARIABLES
    handlers,     \* MessageBus: the action names that have a handler
    subscribers,  \* MessageBus: per channel, the listeners in subscription order
    allowedActions, \* the facade: action names it may call
    allowedEvents,  \* the facade: channels it may publish and subscribe to
    pubChannel,   \* the channel of the publish in progress (NoEvent: none)
    pubCopy,      \* the subscriber list copied when publish was called
    pubNext,      \* position of the next listener to deliver to
    pubErr,       \* the error the publish in progress will raise
    fired,        \* history: listeners invoked by the last publish, in order
    reported,     \* history: listeners whose error the last publish caught
    gone,         \* history: per channel, listeners whose unsubscribe has
                  \* returned and that were not subscribed again
    goneAtCall,   \* history: gone of the channel when publish was called
    bev           \* history: the step of the bus taken last

bvars == <<handlers, subscribers, allowedActions, allowedEvents, pubChannel,
           pubCopy, pubNext, pubErr, fired, reported, gone, goneAtCall, bev>>

cvars == <<internalControllers, context, composed, childState, childSubs, cev>>

gvars == <<state, pollCount, intervalId, timers, pending, fetchCount,
           destroyed, ev, scen, idleSinceStop, pendOld, stateAge,
           quietSinceDestroy, ret, mirror, patches, published>>

vars == <<gvars, cvars, tvars, bvars>>

(* ---- values ---- *)
Undefined == [undefined |-> TRUE]

NoHandle == 0

\* const defaultState
defaultState ==
    [legacyGasPriceEstimates |-> Undefined, gasFeeEstimates |-> Undefined]

\* one tier of a fetched payload (Eip1559GasFee, reduced to the field read)
Eip1559GasFee(n) == [suggestedMaxFeePerGas |-> n]

\* a well-formed payload of the fetch collaborator (GasFeeEstimates)
GasFeeEstimates(n) ==
    [low |-> Eip1559GasFee(n), medium |-> Eip1559GasFee(n + 1),
     high |-> Eip1559GasFee(n + 2)]

\* a payload without its medium tier: reading estimates.medium.<field> throws
MalformedEstimates ==
    [low |-> Eip1559GasFee(1), medium |-> Undefined,
     high |-> Eip1559GasFee(3)]

\* the fetch collaborator rejected (or threw)
Rejected == [rejected |-> TRUE]

\* what `await this.fetchGasEstimates()` can produce
fetchGasEstimates ==
    {GasFeeEstimates(1), GasFeeEstimates(5), MalformedEstimates, Rejected}

\* the payloads that are GasFeeEstimates; every other outcome is a failure
WellFormed == {GasFeeEstimates(1), GasFeeEstimates(5)}

\* no payload (the step settled no fetch)
NoPayload == [nopayload |-> TRUE]

\* a catch block that falls back to the default snapshot instead of leaving
\* newEstimates unset
newEstimatesOf_resetOnError(outcome) ==
    IF outcome \in WellFormed
    THEN [legacyGasPriceEstimates |->
              [low    |-> [gasPrice |-> outcome.low.suggestedMaxFeePerGas],
               medium |-> [gasPrice |-> outcome.medium.suggestedMaxFeePerGas],
               high   |-> [gasPrice |-> outcome.high.suggestedMaxFeePerGas]],
          gasFeeEstimates |-> outcome]
    ELSE defaultState

\* the try/catch of _fetchGasFeeEstimateData: the value of newEstimates
newEstimatesOf(outcome) ==
    IF outcome = Rejected THEN Undefined
    ELSE IF \E t \in {"low", "medium", "high"} : outcome[t] = Undefined
         THEN Undefined
    ELSE [legacyGasPriceEstimates |->
              [low    |-> [gasPrice |-> outcome.low.suggestedMaxFeePerGas],
               medium |-> [gasPrice |-> outcome.medium.suggestedMaxFeePerGas],
               high   |-> [gasPrice |-> outcome.high.suggestedMaxFeePerGas]],
          gasFeeEstimates |-> outcome]

\* BaseController.update(() => newEstimates): a mutator returning undefined
\* replaces nothing; update after destroy fails (the error is swallowed by
\* the `finally { return }` of the caller) and changes nothing
update(st, newEstimates, dead) ==
    IF dead THEN st
    ELSE IF newEstimates = Undefined THEN st
    ELSE newEstimates

\* setInterval returns a handle that no armed timer and no field holds
NewHandle ==
    CHOOSE h \in 1..(Cardinality(timers) + 2) : h \notin timers \cup {intervalId}

RemoveAt(s, i) == SubSeq(s, 1, i - 1) \o SubSeq(s, i + 1, Len(s))

\* refreshes in flight: fetch collaborator called, result not yet handled
InFlight == {i \in 1..Len(pending) : pending[i].phase = "fetch"}

\* start calls that have not yet run _startPolling
StartsPending == {i \in 1..Len(pending) : pending[i].src = "start"}

\* the step taken last: the operation, pollCount and the number of refreshes
\* in flight before it, whether it called the fetch collaborator, what a
\* settled fetch produced, and the error the operation raised to its caller
\* (none of the operations has a throw that reaches the caller)
Event(op, fetched, src, got, beganPos) ==
    [op |-> op, pc0 |-> pollCount, n0 |-> Cardinality(InFlight),
     fetched |-> fetched, src |-> src, got |-> got,
     ok |-> (got \in WellFormed), beganPos |-> beganPos, err |-> "none"]

(* ---- history of the start-then-stop scenario ---- *)
ScenNext(s, op) ==
    CASE s = "fresh"      /\ op = "start"            -> "started"
      [] s = "started"    /\ op = "fetchSettle"      -> "settled"
      [] s = "started"    /\ op = "disconnectPoller" -> "stopEarly1"
      [] s = "settled"    /\ op = "startResume"      -> "running"
      [] s = "settled"    /\ op = "disconnectPoller" -> "stopEarly2"
      [] s = "running"    /\ op = "disconnectPoller" -> "done"
      [] s = "stopEarly1" /\ op = "fetchSettle"      -> "stopEarly2"
      [] s = "stopEarly2" /\ op = "startResume"      -> "done"
      [] OTHER -> "off"

(* ---- history of the polling sessions ---- *)

\* pollCount has just returned to 0 through stopPolling: every call still
\* suspended belongs to the session that ended, and a snapshot that survived
\* the stop is one of that session
SessionEnds ==
    /\ pendOld' = [j \in DOMAIN pendOld |-> TRUE]
    /\ stateAge' = IF state' = defaultState THEN "none" ELSE "previous"

(* ---- initial state: after the constructor ---- *)
GasFeeInitial ==
    /\ state = defaultState
    /\ pollCount = 0
    /\ intervalId = NoHandle
    /\ timers = {}
    /\ pending = <<>>
    /\ fetchCount = 0
    /\ destroyed = FALSE
    /\ ev = [op |-> "init", pc0 |-> 0, n0 |-> 0, fetched |-> FALSE,
             src |-> "none", got |-> NoPayload, ok |-> FALSE,
             beganPos |-> FALSE, err |-> "none"]
    /\ scen = "fresh"
    /\ idleSinceStop = FALSE
    /\ pendOld = <<>>
    /\ stateAge = "none"
    /\ quietSinceDestroy = FALSE
    /\ ret = NoPayload
    /\ mirror = defaultState
    /\ patches = <<>>
    /\ published = 0

\* the Patch between two snapshots: empty when nothing differs, otherwise
\* the replacement of what differs
patchOf(old, new) ==
    IF old = new THEN <<>>
    ELSE <<[op |-> "replace", path |-> <<>>, value |-> new]>>

\* an update that publishes whether or not anything changed
publishesOf_always(patch, dead) == IF dead THEN 0 ELSE 1

\* update publishes stateChange once unless the Patch is empty; an update
\* after destroy fails and publishes nothing
publishesOf(patch, dead) ==
    IF dead THEN 0
    ELSE IF patch = <<>> THEN 0
    ELSE 1

\* a step without update: nothing is published
Silent ==
    /\ patches' = <<>>
    /\ published' = 0
    /\ UNCHANGED mirror

\* a step of the GasFeeController touches no other controller
OtherControllersIdle == UNCHANGED <<cvars, tvars, bvars>>

(* ---- private helpers of the controller ---- *)

\* _poll: arm the repeating timer and keep its handle
_poll ==
    /\ intervalId' = NewHandle
    /\ timers' = timers \cup {NewHandle}

\* _startPolling
_startPolling ==
    /\ IF pollCount = 0 THEN _poll ELSE UNCHANGED <<intervalId, timers>>
    /\ pollCount' = pollCount + 1

\* a resetState that leaves the snapshot alone
resetState_keepsState == UNCHANGED state

\* resetState: `this.state = defaultState`, an assignment that does not go
\* through update (so the steps that call it are Silent)
resetState == state' = defaultState

\* a stopPolling that forgets clearInterval
stopPolling_keepsTimer ==
    /\ UNCHANGED <<timers, intervalId>>
    /\ pollCount' = 0
    /\ resetState

\* a stopPolling that leaves pollCount alone
stopPolling_keepsCount ==
    /\ timers' = IF intervalId # NoHandle THEN timers \ {intervalId} ELSE timers
    /\ UNCHANGED intervalId
    /\ UNCHANGED pollCount
    /\ resetState

\* stopPolling
stopPolling ==
    /\ timers' = IF intervalId # NoHandle THEN timers \ {intervalId} ELSE timers
    /\ UNCHANGED intervalId
    /\ pollCount' = 0
    /\ resetState

\* a refresh that discards its result once nobody polls any more
applyEstimates_onlyWhilePolling(newEstimates) ==
    IF pollCount > 0 THEN update(state, newEstimates, destroyed) ELSE state

\* a refresh that writes the fetched estimates into the old snapshot field
\* by field and stops half way
applyEstimates_partialWrite(newEstimates) ==
    IF destroyed \/ newEstimates = Undefined THEN state
    ELSE [state EXCEPT !.gasFeeEstimates = newEstimates.gasFeeEstimates]

\* the finally block of _fetchGasFeeEstimateData:
\* this.update(() => newEstimates), whatever pollCount is by now
applyEstimates(newEstimates) == update(state, newEstimates, destroyed)

\* the first half of _fetchGasFeeEstimateData: call the fetch collaborator
\* and suspend on its promise
beginFetch(src) ==
    /\ Len(pending) < MaxPending
    /\ fetchCount < MaxFetch
    /\ fetchCount' = fetchCount + 1
    /\ pending' = Append(pending,
                         [src |-> src, phase |-> "fetch",
                          beganPos |-> (pollCount > 0), got |-> NoPayload,
                          res |-> Undefined])
    /\ pendOld' = Append(pendOld, FALSE)

(* ---- operations ---- *)

\* getGasFeeEstimatesAndStartPolling, up to its first suspension
getGasFeeEstimatesAndStartPolling ==
    /\ pollCount + Cardinality(StartsPending) < MaxPollCount
    /\ IF pollCount > 0
       THEN /\ _startPolling
            /\ UNCHANGED <<pending, fetchCount, pendOld>>
            /\ ev' = Event("start", FALSE, "start", NoPayload, FALSE)
       ELSE /\ beginFetch("start")
            /\ UNCHANGED <<pollCount, intervalId, timers>>
            /\ ev' = Event("start", TRUE, "start", NoPayload, FALSE)
    /\ scen' = ScenNext(scen, "start")
    /\ idleSinceStop' = FALSE
    /\ quietSinceDestroy' = FALSE
    /\ ret' = IF pollCount > 0 THEN state ELSE NoPayload
    /\ Silent
    /\ UNCHANGED <<state, destroyed, stateAge>>
    /\ OtherControllersIdle

\* the timer callback of _poll: safelyExecute(_fetchGasFeeEstimateData)
timerTick ==
    /\ \E h \in timers : TRUE
    /\ beginFetch("tick")
    /\ ev' = Event("tick", TRUE, "tick", NoPayload, pollCount > 0)
    /\ scen' = ScenNext(scen, "tick")
    /\ ret' = NoPayload
    /\ Silent
    /\ UNCHANGED <<state, pollCount, intervalId, timers, destroyed,
                   idleSinceStop, stateAge, quietSinceDestroy>>
    /\ OtherControllersIdle

\* the second half of _fetchGasFeeEstimateData: the fetch promise settles,
\* newEstimates is computed, fed to update and returned
fetchSettle ==
    \E i \in InFlight, outcome \in fetchGasEstimates :
        LET e == pending[i]
            newEstimates == newEstimatesOf(outcome)
        IN  /\ state' = applyEstimates(newEstimates)
            /\ pending' = IF e.src = "start"
                          THEN [pending EXCEPT ![i] =
                                   [e EXCEPT !.phase = "resume",
                                             !.got = outcome,
                                             !.res = newEstimates]]
                          ELSE RemoveAt(pending, i)
            /\ ev' = Event("fetchSettle", FALSE, e.src, outcome, e.beganPos)
            /\ scen' = ScenNext(scen, "fetchSettle")
            /\ pendOld' = IF e.src = "start" THEN pendOld
                                             ELSE RemoveAt(pendOld, i)
            /\ stateAge' = IF newEstimates # Undefined /\ ~destroyed
                           THEN (IF ~pendOld[i] THEN "current"
                                 ELSE IF e.src = "tick" THEN "inflightTick"
                                 ELSE "inflightStart")
                           ELSE stateAge
            /\ patches' = IF destroyed THEN <<>> ELSE patchOf(state, state')
            /\ published' = publishesOf(patches', destroyed)
            /\ mirror' = IF published' > 0 THEN state' ELSE mirror
            /\ ret' = NoPayload
            /\ UNCHANGED <<pollCount, intervalId, timers, fetchCount,
                           destroyed, idleSinceStop, quietSinceDestroy>>
            /\ OtherControllersIdle

\* getGasFeeEstimatesAndStartPolling after `await _fetchGasFeeEstimateData()`:
\* _startPolling, then return gasEstimates
startResume ==
    \E i \in 1..Len(pending) :
        /\ pending[i].phase = "resume"
        /\ _startPolling
        /\ pending' = RemoveAt(pending, i)
        /\ ev' = Event("startResume", TRUE, "start", pending[i].got, FALSE)
        /\ scen' = ScenNext(scen, "startResume")
        /\ pendOld' = RemoveAt(pendOld, i)
        /\ ret' = pending[i].res
        /\ Silent
        /\ UNCHANGED <<state, fetchCount, destroyed, idleSinceStop, stateAge,
                       quietSinceDestroy>>
        /\ OtherControllersIdle

\* a disconnectPoller that stops polling as soon as one caller leaves
disconnectPoller_firstStopStops ==
    /\ pollCount > -MaxUnderflow
    /\ IF pollCount - 1 = 0 \/ pollCount - 1 = 1
       THEN stopPolling /\ SessionEnds
       ELSE /\ pollCount' = pollCount - 1
            /\ UNCHANGED <<state, intervalId, timers, pendOld, stateAge>>
    /\ ev' = Event("disconnectPoller", FALSE, "none", NoPayload, FALSE)
    /\ scen' = ScenNext(scen, "disconnectPoller")
    /\ idleSinceStop' = IF pollCount - 1 = 0 THEN TRUE ELSE idleSinceStop
    /\ ret' = NoPayload
    /\ Silent
    /\ UNCHANGED <<pending, fetchCount, destroyed, quietSinceDestroy>>
    /\ OtherControllersIdle

\* disconnectPoller
disconnectPoller ==
    /\ pollCount > -MaxUnderflow
    /\ IF pollCount - 1 = 0
       THEN stopPolling /\ SessionEnds
       ELSE /\ pollCount' = pollCount - 1
            /\ UNCHANGED <<state, intervalId, timers, pendOld, stateAge>>
    /\ ev' = Event("disconnectPoller", FALSE, "none", NoPayload, FALSE)
    /\ scen' = ScenNext(scen, "disconnectPoller")
    /\ idleSinceStop' = IF pollCount - 1 = 0 THEN TRUE ELSE idleSinceStop
    /\ ret' = NoPayload
    /\ Silent
    /\ UNCHANGED <<pending, fetchCount, destroyed, quietSinceDestroy>>
    /\ OtherControllersIdle

\* destroy: super.destroy(), then stopPolling
destroy ==
    /\ ~destroyed
    /\ destroyed' = TRUE
    /\ stopPolling
    /\ SessionEnds
    /\ quietSinceDestroy' = TRUE
    /\ ev' = Event("destroy", FALSE, "none", NoPayload, FALSE)
    /\ scen' = ScenNext(scen, "destroy")
    /\ ret' = NoPayload
    /\ Silent
    /\ UNCHANGED <<pending, fetchCount, idleSinceStop>>
    /\ OtherControllersIdle


(***************************************************************************)
(* MessageBus and RestrictedMessenger.  Their code is not part of the      *)
(* sources at hand: the operations below follow sections 3, 4.1 and 7 of   *)
(* the specification.  publish is synchronous, so while it delivers, the   *)
(* only other operations that run are the ones a listener performs; a      *)
(* publish is a publish step, one deliver step per listener and a          *)
(* publishReturn step.                                                     *)
(***************************************************************************)

Listeners == 1..NumListeners

\* the event channel and the action names, "<Namespace>:<name>"
Events == {"A:stateChange"}
Actions == {"A:foo", "B:bar"}

\* no publish is in progress
NoEvent == "none"

\* what a listener does when it is invoked, besides returning or throwing
Behaviours ==
    {[do |-> "return", l |-> 0], [do |-> "throw", l |-> 0]}
        \cup {[do |-> d, l |-> x] : d \in {"subscribe", "unsubscribe"},
                                    x \in Listeners}

Range(s) == {s[i] : i \in DOMAIN s}

Without(s, x) == SelectSeq(s, LAMBDA y : y # x)

\* a facade that forwards every name
permitted_everything(name, allowList) == TRUE

\* the check of a restricted facade
permitted(name, allowList) == name \in allowList

\* a publish that walks the live subscriber list
deliveryList_live(copy, live) == live

\* publish delivers to the copy of the subscriber list taken at the call
deliveryList(copy, live) == copy

\* a publish that lets the error of a listener through and stops
onListenerError_rethrows(next, list) ==
    [next |-> Len(list) + 1, err |-> "SubscriberError", caught |-> FALSE]

\* the error of a listener is caught and reported; delivery goes on
onListenerError(next, list) ==
    [next |-> next + 1, err |-> "none", caught |-> TRUE]

\* the step taken last: the operation, whether it went through the facade,
\* whether its name is on the allow-list of the facade, the listener a
\* deliver step invoked and what it did, the error raised to the caller,
\* and whether the handler or listener was invoked
BusEvent(op, via, listed, listener, did, err, invoked) ==
    [op |-> op, via |-> via, listed |-> listed, listener |-> listener,
     did |-> did, err |-> err, invoked |-> invoked]

\* the bus after construction, with one facade that restrict(namespace,
\* actions, events) has returned
MessengerInitial(actions, events) ==
    /\ handlers = {}
    /\ subscribers = [e \in Events |-> <<>>]
    /\ allowedActions = actions
    /\ allowedEvents = events
    /\ pubChannel = NoEvent
    /\ pubCopy = <<>>
    /\ pubNext = 0
    /\ pubErr = "none"
    /\ fired = <<>>
    /\ reported = {}
    /\ gone = [e \in Events |-> {}]
    /\ goneAtCall = {}
    /\ bev = BusEvent("init", "bus", FALSE, 0, "none", "none", FALSE)

BusIdle == pubChannel = NoEvent

PublishUnchanged ==
    UNCHANGED <<pubChannel, pubCopy, pubNext, pubErr, fired, reported,
                goneAtCall>>

\* registerAction(name, handler)
registerAction ==
    \E name \in Actions :
        /\ BusIdle
        /\ IF name \in handlers
           THEN /\ UNCHANGED handlers
                /\ bev' = BusEvent("registerAction", "bus", FALSE, 0, "none",
                                   "DuplicateAction", FALSE)
           ELSE /\ handlers' = handlers \cup {name}
                /\ bev' = BusEvent("registerAction", "bus", FALSE, 0, "none",
                                   "none", FALSE)
        /\ UNCHANGED <<subscribers, allowedActions, allowedEvents, gone>>
        /\ PublishUnchanged
        /\ UNCHANGED <<gvars, cvars, tvars>>

\* unregisterAction(name): a no-op when the name has no handler
unregisterAction ==
    \E name \in Actions :
        /\ BusIdle
        /\ handlers' = handlers \ {name}
        /\ bev' = BusEvent("unregisterAction", "bus", FALSE, 0, "none",
                           "none", FALSE)
        /\ UNCHANGED <<subscribers, allowedActions, allowedEvents, gone>>
        /\ PublishUnchanged
        /\ UNCHANGED <<gvars, cvars, tvars>>

\* call(name), on the bus or through the facade
call ==
    \E name \in Actions, via \in {"bus", "facade"} :
        /\ BusIdle
        /\ bev' = IF via = "facade" /\ ~permitted(name, allowedActions)
                  THEN BusEvent("call", via, name \in allowedActions, 0, "none",
                                "PermissionError", FALSE)
                  ELSE IF name \notin handlers
                  THEN BusEvent("call", via, name \in allowedActions, 0, "none",
                                "ActionNotFound", FALSE)
                  ELSE BusEvent("call", via, name \in allowedActions, 0, "none", "none", TRUE)
        /\ UNCHANGED <<handlers, subscribers, allowedActions, allowedEvents,
                       gone>>
        /\ PublishUnchanged
        /\ UNCHANGED <<gvars, cvars, tvars>>

\* subscribe(channel, listener), on the bus or through the facade; the
\* identical listener is not added twice
subscribe ==
    \E e \in Events, l \in Listeners, via \in {"bus", "facade"} :
        /\ BusIdle
        /\ IF via = "facade" /\ ~permitted(e, allowedEvents)
           THEN /\ UNCHANGED <<subscribers, gone>>
                /\ bev' = BusEvent("subscribe", via, e \in allowedEvents, 0, "none",
                                   "PermissionError", FALSE)
           ELSE IF l \in Range(subscribers[e])
           THEN /\ UNCHANGED <<subscribers, gone>>
                /\ bev' = BusEvent("subscribe", via, e \in allowedEvents, 0, "none",
                                   "DuplicateListener", FALSE)
           ELSE /\ subscribers' = [subscribers EXCEPT ![e] = Append(@, l)]
                /\ gone' = [gone EXCEPT ![e] = @ \ {l}]
                /\ bev' = BusEvent("subscribe", via, e \in allowedEvents, 0, "none", "none",
                                   FALSE)
        /\ UNCHANGED <<handlers, allowedActions, allowedEvents>>
        /\ PublishUnchanged
        /\ UNCHANGED <<gvars, cvars, tvars>>

\* unsubscribe(channel, listener) of a subscribed listener
unsubscribe ==
    \E e \in Events, l \in Listeners :
        /\ BusIdle
        /\ l \in Range(subscribers[e])
        /\ subscribers' = [subscribers EXCEPT ![e] = Without(@, l)]
        /\ gone' = [gone EXCEPT ![e] = @ \cup {l}]
        /\ bev' = BusEvent("unsubscribe", "bus", FALSE, 0, "none", "none",
                           FALSE)
        /\ UNCHANGED <<handlers, allowedActions, allowedEvents>>
        /\ PublishUnchanged
        /\ UNCHANGED <<gvars, cvars, tvars>>

\* publish(channel), on the bus or through the facade: the call itself,
\* which takes the copy of the subscriber list
publish ==
    \E e \in Events, via \in {"bus", "facade"} :
        /\ BusIdle
        /\ IF via = "facade" /\ ~permitted(e, allowedEvents)
           THEN /\ PublishUnchanged
                /\ bev' = BusEvent("publish", via, e \in allowedEvents, 0, "none",
                                   "PermissionError", FALSE)
           ELSE /\ pubChannel' = e
                /\ pubCopy' = subscribers[e]
                /\ pubNext' = 1
                /\ pubErr' = "none"
                /\ fired' = <<>>
                /\ reported' = {}
                /\ goneAtCall' = gone[e]
                /\ bev' = BusEvent("publish", via, e \in allowedEvents, 0, "none", "none",
                                   FALSE)
        /\ UNCHANGED <<handlers, subscribers, allowedActions, allowedEvents,
                       gone>>
        /\ UNCHANGED <<gvars, cvars, tvars>>

\* publish invokes the next listener, which returns, throws, or subscribes
\* or unsubscribes a listener of the channel before it returns
deliver ==
    \E b \in Behaviours :
        LET list == deliveryList(pubCopy, subscribers[pubChannel])
            l == list[pubNext]
            after == onListenerError(pubNext, list)
        IN  /\ ~BusIdle
            /\ pubNext <= Len(list)
            /\ b.do = "subscribe" => b.l \notin Range(subscribers[pubChannel])
            /\ b.do = "unsubscribe" => b.l \in Range(subscribers[pubChannel])
            /\ fired' = Append(fired, l)
            /\ subscribers' =
                   CASE b.do = "subscribe" ->
                            [subscribers EXCEPT ![pubChannel] = Append(@, b.l)]
                     [] b.do = "unsubscribe" ->
                            [subscribers EXCEPT ![pubChannel] = Without(@, b.l)]
                     [] OTHER -> subscribers
            /\ gone' =
                   CASE b.do = "subscribe" ->
                            [gone EXCEPT ![pubChannel] = @ \ {b.l}]
                     [] b.do = "unsubscribe" ->
                            [gone EXCEPT ![pubChannel] = @ \cup {b.l}]
                     [] OTHER -> gone
            /\ pubNext' = IF b.do = "throw" THEN after.next ELSE pubNext + 1
            /\ pubErr' = IF b.do = "throw" THEN after.err ELSE pubErr
            /\ reported' = IF b.do = "throw" /\ after.caught
                           THEN reported \cup {l} ELSE reported
            /\ bev' = BusEvent("deliver", "bus", FALSE, l, b.do, "none", TRUE)
            /\ UNCHANGED <<handlers, allowedActions, allowedEvents,
                           pubChannel, pubCopy, goneAtCall>>
            /\ UNCHANGED <<gvars, cvars, tvars>>

\* publish returns to the publisher when no listener is left
publishReturn ==
    /\ ~BusIdle
    /\ pubNext > Len(deliveryList(pubCopy, subscribers[pubChannel]))
    /\ pubChannel' = NoEvent
    /\ pubCopy' = <<>>
    /\ pubNext' = 0
    /\ pubErr' = "none"
    /\ fired' = <<>>
    /\ reported' = {}
    /\ goneAtCall' = {}
    /\ bev' = BusEvent("publishReturn", "bus", FALSE, 0, "none", pubErr,
                       FALSE)
    /\ UNCHANGED <<handlers, subscribers, allowedActions, allowedEvents,
                   gone>>
    /\ UNCHANGED <<gvars, cvars, tvars>>

(***************************************************************************)
(* TokenRatesController (src/src/TokenRatesController.ts): the legacy      *)
(* controller that polls token exchange rates on an interval.              *)
(*                                                                         *)
(* updateExchangeRates has one suspension point, the await of              *)
(* fetchExchangeRate (line 151): a refresh that passes the guard of line   *)
(* 144 is two steps, the call (which calls the fetch collaborator          *)
(* synchronously) and updateExchangeRatesSettle.  Nothing waits for a      *)
(* refresh: the setters and the timer callback drop the promise of         *)
(* safelyExecute.                                                          *)
(***************************************************************************)

\* defaultConfig.interval
DefaultInterval == 180000

\* the intervals a caller sets (the second is the one of the interval test)
Intervals == {DefaultInterval, 1337}

\* defaultConfig.nativeCurrency
nativeCurrency == "eth"

\* token addresses as the AssetsController hands them over
AllTokens == <<"0xab", "0xCD", "0xEf">>

\* the token lists a caller sets
TokenLists == {SubSeq(AllTokens, 1, n) : n \in 0..MaxTokens}

\* String.prototype.toLowerCase on an address
toLowerCase(a) ==
    CASE a = "0xCD" -> "0xcd"
      [] a = "0xEf" -> "0xef"
      [] OTHER -> a

\* toChecksumAddress of ethereumjs-util on a lower-case address
toChecksumAddress(a) ==
    CASE a = "0xab" -> "0xAb"
      [] a = "0xcd" -> "0xCd"
      [] a = "0xef" -> "0xEf"
      [] OTHER -> a

\* defaultState.contractExchangeRates: {} (a hash is a set of key/value pairs)
defaultRates == {}

\* a price of the pricing service: a number, or something else
Price(n) == [isNumber |-> TRUE, value |-> n]
NotANumber == [isNumber |-> FALSE, value |-> 0]
PriceValues == {Price(1), Price(2), NotANumber}

\* the pairs of the query: `${token.address}/${nativeCurrency}` per token
pairsOf(list) == [i \in DOMAIN list |-> <<list[i], nativeCurrency>>]

\* fetchExchangeRate rejected (fetch or response.json() threw)
FetchRejected == [ok |-> FALSE, hasPrices |-> FALSE, prices |-> <<>>]

\* a response without a prices field
NoPricesField == [ok |-> TRUE, hasPrices |-> FALSE, prices |-> <<>>]

\* a response with one price per pair of the query
PricesFor(query, p) ==
    [ok |-> TRUE, hasPrices |-> TRUE,
     prices |-> [i \in DOMAIN query |->
                    [hasPair |-> TRUE, pair |-> query[i], price |-> p]]]

\* a response whose price entries lack the pair: pair.split throws
MalformedPrices(query) ==
    [ok |-> TRUE, hasPrices |-> TRUE,
     prices |-> [i \in DOMAIN query |->
                    [hasPair |-> FALSE, pair |-> query[i],
                     price |-> Price(1)]]]

\* what `await this.fetchExchangeRate(query)` can produce
fetchExchangeRate(query) ==
    {FetchRejected, NoPricesField, MalformedPrices(query)}
        \cup {PricesFor(query, p) : p \in PriceValues}

\* the forEach of updateExchangeRates: fill newContractExchangeRates
RECURSIVE newContractExchangeRates(_, _, _)
newContractExchangeRates(prices, k, acc) ==
    IF k > Len(prices)
    THEN acc
    ELSE LET address == toChecksumAddress(toLowerCase(prices[k].pair[1]))
             rate == IF prices[k].price.isNumber
                     THEN prices[k].price.value
                     ELSE 0
         IN  newContractExchangeRates(prices, k + 1,
                 {r \in acc : r[1] # address} \cup {<<address, rate>>})

\* updateExchangeRates after its await: the rates it hands to update, or
\* the exception that leaves it
resumeUpdate(outcome) ==
    IF ~outcome.ok
    THEN [threw |-> TRUE, rates |-> defaultRates]
    ELSE LET prices == IF outcome.hasPrices THEN outcome.prices ELSE <<>>
         IN  IF \E k \in DOMAIN prices : ~prices[k].hasPair
             THEN [threw |-> TRUE, rates |-> defaultRates]
             ELSE [threw |-> FALSE,
                   rates |-> newContractExchangeRates(prices, 1, defaultRates)]

\* a safelyExecute without its catch
safelyExecute_rethrows(op) ==
    IF op.threw
    THEN [promise |-> "rejected", value |-> "error"]
    ELSE [promise |-> "resolved", value |-> op.value]

\* safelyExecute(operation): the promise it returns
safelyExecute(op) ==
    IF op.threw
    THEN [promise |-> "resolved", value |-> "undefined"]
    ELSE [promise |-> "resolved", value |-> op.value]

\* a promise nobody wraps: it settles as the operation does
unwrapped(op) ==
    IF op.threw
    THEN [promise |-> "rejected", value |-> "error"]
    ELSE [promise |-> "resolved", value |-> op.value]

\* a guard that forgets the disabled flag
skipsRefresh_ignoresDisabled(dis, list) == Len(list) = 0

\* the guard of updateExchangeRates
skipsRefresh(dis, list) == dis \/ Len(list) = 0

\* an interval setter that forgets clearInterval
clearPrevious_keepsTimer(tmrs, h) == tmrs

\* this.handle && clearInterval(this.handle)
clearPrevious(tmrs, h) ==
    IF h # NoHandle THEN {t \in tmrs : t.id # h} ELSE tmrs

\* setInterval returns a handle that no armed timer and no field holds
newTimer(tmrs, h) ==
    CHOOSE id \in 1..(Cardinality(tmrs) + 2) :
        id # h /\ \A t \in tmrs : t.id # id

\* the step taken last: the operation, whether it invoked
\* updateExchangeRates, whether that called the fetch collaborator, whether
\* a settled refresh failed, whether it ran under safelyExecute, and how
\* the promise of the refresh settled
TokenEvent(op, refreshed, fetched, failed, safely, promise) ==
    [op |-> op, refreshed |-> refreshed, fetched |-> fetched,
     failed |-> failed, safely |-> safely, promise |-> promise]

\* updateExchangeRates up to its await, on the token list given: either it
\* returns at the guard or it calls fetchExchangeRate and suspends
beginUpdate(list, safely) ==
    IF skipsRefresh(disabled, list)
    THEN UNCHANGED <<tokenPending, tokenFetchCount>>
    ELSE /\ tokenFetchCount < MaxTokenFetch
         /\ Len(tokenPending) < MaxTokenPending
         /\ tokenFetchCount' = tokenFetchCount + 1
         /\ tokenPending' = Append(tokenPending,
                                [query |-> pairsOf(list), safely |-> safely,
                                 serial |-> tokenFetchCount + 1])

\* the constructor: initialize() configures the interval, which arms the
\* first timer; the token list is the default one
TokenRatesInitial(interval) ==
    LET id == newTimer(clearPrevious({}, NoHandle), NoHandle)
    IN  /\ handle = id
        /\ tokenTimers = {[id |-> id, interval |-> interval]}
        /\ tokenList = <<>>
        /\ disabled = FALSE
        /\ contractExchangeRates = defaultRates
        /\ tokenPending = <<>>
        /\ tokenFetchCount = 0
        /\ lastInterval = interval
        /\ tickFailed = FALSE
        /\ ratesSerial = 0
        /\ tev = TokenEvent("init", FALSE, FALSE, FALSE, FALSE, "none")

\* set interval(interval)
set_interval ==
    \E interval \in Intervals :
        LET cleared == clearPrevious(tokenTimers, handle)
            id == newTimer(cleared, handle)
        IN  /\ beginUpdate(tokenList, TRUE)
            /\ handle' = id
            /\ tokenTimers' = cleared \cup {[id |-> id, interval |-> interval]}
            /\ lastInterval' = interval
            /\ tev' = TokenEvent("set_interval", TRUE,
                                 tokenFetchCount' # tokenFetchCount,
                                 FALSE, TRUE, "none")
            /\ UNCHANGED <<tokenList, disabled, contractExchangeRates,
                           tickFailed, ratesSerial>>
            /\ UNCHANGED <<gvars, cvars, bvars>>

\* set tokens(tokens)
set_tokens ==
    \E tokens \in TokenLists :
        /\ tokenList' = tokens
        /\ beginUpdate(tokens, TRUE)
        /\ tev' = TokenEvent("set_tokens", TRUE,
                             tokenFetchCount' # tokenFetchCount,
                             FALSE, TRUE, "none")
        /\ UNCHANGED <<handle, tokenTimers, disabled, contractExchangeRates,
                       lastInterval, tickFailed, ratesSerial>>
        /\ UNCHANGED <<gvars, cvars, bvars>>

\* the timer callback: safelyExecute(() => this.updateExchangeRates())
tokenTimerTick ==
    \E t \in tokenTimers :
        /\ beginUpdate(tokenList, TRUE)
        /\ tev' = TokenEvent("tick", TRUE,
                             tokenFetchCount' # tokenFetchCount,
                             FALSE, TRUE, "none")
        /\ UNCHANGED <<handle, tokenTimers, tokenList, disabled,
                       contractExchangeRates, lastInterval, tickFailed, ratesSerial>>
        /\ UNCHANGED <<gvars, cvars, bvars>>

\* updateExchangeRates called by a client, up to its await
updateExchangeRates ==
    /\ beginUpdate(tokenList, FALSE)
    /\ tev' = TokenEvent("updateExchangeRates", TRUE,
                         tokenFetchCount' # tokenFetchCount,
                         FALSE, FALSE, "none")
    /\ UNCHANGED <<handle, tokenTimers, tokenList, disabled,
                   contractExchangeRates, lastInterval, tickFailed, ratesSerial>>
    /\ UNCHANGED <<gvars, cvars, bvars>>

\* updateExchangeRates after its await: the fetch settles, the rates are
\* computed and handed to update, and the promise of the refresh settles
updateExchangeRatesSettle ==
    \E j \in DOMAIN tokenPending :
      \E outcome \in fetchExchangeRate(tokenPending[j].query) :
        LET refresh == tokenPending[j]
            resumed == resumeUpdate(outcome)
            op == [threw |-> resumed.threw, value |-> "undefined"]
            settled == IF refresh.safely THEN safelyExecute(op)
                       ELSE unwrapped(op)
        IN  /\ tokenPending' = RemoveAt(tokenPending, j)
            /\ contractExchangeRates' = IF resumed.threw
                                        THEN contractExchangeRates
                                        ELSE resumed.rates
            /\ tickFailed' = (tickFailed \/ (resumed.threw /\ refresh.safely))
            /\ ratesSerial' = IF resumed.threw THEN ratesSerial
                               ELSE refresh.serial
            /\ tev' = TokenEvent("settle", FALSE, FALSE, resumed.threw,
                                 refresh.safely, settled.promise)
            /\ UNCHANGED <<handle, tokenTimers, tokenList, disabled,
                           tokenFetchCount, lastInterval>>
            /\ UNCHANGED <<gvars, cvars, bvars>>

\* the disabled flag of the controller is switched
configureDisabled ==
    \E d \in BOOLEAN :
        /\ d # disabled
        /\ disabled' = d
        /\ tev' = TokenEvent("configure", FALSE, FALSE, FALSE, FALSE, "none")
        /\ UNCHANGED <<handle, tokenTimers, tokenList, contractExchangeRates,
                       tokenPending, tokenFetchCount, lastInterval,
                       tickFailed, ratesSerial>>
        /\ UNCHANGED <<gvars, cvars, bvars>>

(***************************************************************************)
(* ComposableController (src/src/ComposableController.ts, lines 13-79).    *)
(* The children are legacy BaseControllers: subscribe(listener) appends    *)
(* the listener, update(partial, overwrite) merges or overwrites the state *)
(* and then calls every listener with the new state.                       *)
(***************************************************************************)

\* the child controllers; children 1 and 3 are instances of the same class
Children == 1..NumChildren

\* controller.constructor.name
NameOf(c) == IF c % 2 = 1 THEN "A" ELSE "B"

Names == {"A", "B"}

\* the states a child can be in
ChildStates == {"s0", "s1"}

\* a name with no entry in the aggregate
Absent == "absent"

\* a name with no entry in the context
NoChild == 0

\* an onComposed hook that does not touch its controller's state
NoChange == "nochange"

\* the lists the setter can be given: distinct children, at most MaxList
ControllerLists ==
    {l \in UNION {[1..n -> Children] : n \in 0..MaxList} :
        \A i, j \in DOMAIN l : i # j => l[i] # l[j]}

\* BaseController.update(partial, overwrite) on the composite's state
baseUpdate(st, partial, overwrite) ==
    IF overwrite THEN partial
    ELSE [n \in Names |-> IF partial[n] # Absent THEN partial[n] ELSE st[n]]

\* the listener the setter subscribes: this.update({ [name]: state })
childListener(st, name, childSt) ==
    baseUpdate(st, [n \in Names |-> IF n = name THEN childSt ELSE Absent], FALSE)

\* a first loop body that keeps the first child of a name
wireOne_firstWins(acc, c) ==
    IF acc.context[NameOf(c)] # NoChild
    THEN [acc EXCEPT !.subs[c] = @ + 1, !.shares = @ \cup {c}]
    ELSE [context      |-> [acc.context EXCEPT ![NameOf(c)] = c],
          initialState |-> [acc.initialState EXCEPT ![NameOf(c)] = childState[c]],
          shares       |-> acc.shares \cup {c},
          subs         |-> [acc.subs EXCEPT ![c] = @ + 1]]

\* the body of the setter's first forEach, for child c; shares are the
\* children whose context field references the new context map
wireOne(acc, c) ==
    [context      |-> [acc.context EXCEPT ![NameOf(c)] = c],
     initialState |-> [acc.initialState EXCEPT ![NameOf(c)] = childState[c]],
     shares       |-> acc.shares \cup {c},
     subs         |-> [acc.subs EXCEPT ![c] = @ + 1]]

\* the setter's first forEach over controllers[k..]
RECURSIVE wireAll(_, _, _)
wireAll(list, k, acc) ==
    IF k > Len(list) THEN acc
    ELSE wireAll(list, k + 1, wireOne(acc, list[k]))

\* the context map before the first forEach
NoContext == [n \in Names |-> NoChild]

\* what the first forEach starts from
Unwired(subs) ==
    [context      |-> NoContext,
     initialState |-> [n \in Names |-> Absent],
     shares       |-> {},
     subs         |-> subs]

\* a setter with one loop: the hook of controllers[k] runs right after
\* controllers[k] is wired, when the map holds controllers[1..k] only
contextSeenBy_onePhase(wired, list, k) ==
    wireAll(SubSeq(list, 1, k), 1, Unwired(wired.subs)).context

\* this.context as the hook of controllers[k] reads it: the second forEach
\* starts when the first has ended, so the map the child references is
\* complete
contextSeenBy(wired, list, k) ==
    IF list[k] \in wired.shares THEN wired.context ELSE NoContext

\* the setter's second forEach over controllers[k..]: controller.onComposed(),
\* where hook[c] is the state the hook of c moves its controller to; the
\* listeners of that child (subs[c] of them) each update the aggregate
RECURSIVE composeAll(_, _, _, _, _)
composeAll(list, k, hook, wired, acc) ==
    IF k > Len(list) THEN acc
    ELSE LET c == list[k]
             called == Append(acc.called,
                              [child |-> c,
                               sees |-> contextSeenBy(wired, list, k)])
         IN  composeAll(list, k + 1, hook, wired,
                 IF hook[c] = NoChange THEN [acc EXCEPT !.called = called]
                 ELSE [childState |-> [acc.childState EXCEPT ![c] = hook[c]],
                       composed   |-> IF wired.subs[c] > 0
                                      THEN childListener(acc.composed,
                                                         NameOf(c), hook[c])
                                      ELSE acc.composed,
                       called     |-> called])

\* new ComposableController([]) over children in the states cs
ComposableInitial(cs) ==
    /\ internalControllers = <<>>
    /\ context = [n \in Names |-> NoChild]
    /\ composed = [n \in Names |-> Absent]
    /\ childState = cs
    /\ childSubs = [c \in Children |-> 0]
    /\ cev = [op |-> "init", child |-> NoChild, deliveries |-> 0,
              hooks |-> <<>>, err |-> "none"]

\* set controllers(controllers)
setControllers ==
    \E list \in ControllerLists,
       hook \in [Children -> ChildStates \cup {NoChange}] :
        /\ \A c \in Children :
               (\A i \in DOMAIN list : list[i] # c) => hook[c] = NoChange
        /\ \A i \in DOMAIN list : childSubs[list[i]] < MaxSubs
        /\ LET wired == wireAll(list, 1, Unwired(childSubs))
               hooked == composeAll(list, 1, hook, wired,
                             [childState |-> childState,
                              composed   |-> composed,
                              called     |-> <<>>])
           IN  /\ internalControllers' = list
               /\ context' = wired.context
               /\ childSubs' = wired.subs
               /\ childState' = hooked.childState
               /\ composed' = baseUpdate(hooked.composed,
                                         wired.initialState, TRUE)
               /\ cev' = [op |-> "setControllers", child |-> NoChild,
                          deliveries |-> 0, hooks |-> hooked.called,
                          err |-> "none"]
        /\ UNCHANGED <<gvars, tvars, bvars>>

\* a child controller updates its own state: its listeners are notified
childUpdate ==
    \E c \in Children, v \in ChildStates :
        /\ childState' = [childState EXCEPT ![c] = v]
        /\ composed' = IF childSubs[c] > 0
                       THEN childListener(composed, NameOf(c), v)
                       ELSE composed
        /\ cev' = [op |-> "childUpdate", child |-> c,
                   deliveries |-> childSubs[c], hooks |-> <<>>, err |-> "none"]
        /\ UNCHANGED <<internalControllers, context, childSubs>>
        /\ UNCHANGED <<gvars, tvars, bvars>>

InitComposable ==
    /\ GasFeeInitial
    /\ TokenRatesInitial(DefaultInterval)
    /\ MessengerInitial({}, {})
    /\ \E cs \in [Children -> ChildStates] : ComposableInitial(cs)

NextComposable ==
    \/ setControllers
    \/ childUpdate

SpecComposable == InitComposable /\ [][NextComposable]_vars

(* ---- the TokenRatesController on its own ---- *)
InitTokenRates ==
    /\ GasFeeInitial
    /\ ComposableInitial([c \in Children |-> "s0"])
    /\ \E interval \in Intervals : TokenRatesInitial(interval)
    /\ MessengerInitial({}, {})

NextTokenRates ==
    \/ set_interval
    \/ set_tokens
    \/ tokenTimerTick
    \/ updateExchangeRates
    \/ updateExchangeRatesSettle
    \/ configureDisabled

SpecTokenRates == InitTokenRates /\ [][NextTokenRates]_vars

(* ---- the MessageBus on its own ---- *)
InitMessenger ==
    /\ GasFeeInitial
    /\ ComposableInitial([c \in Children |-> "s0"])
    /\ TokenRatesInitial(DefaultInterval)
    /\ \E events \in SUBSET Events : MessengerInitial({"A:foo"}, events)

NextMessenger ==
    \/ registerAction
    \/ unregisterAction
    \/ call
    \/ subscribe
    \/ unsubscribe
    \/ publish
    \/ deliver
    \/ publishReturn

SpecMessenger == InitMessenger /\ [][NextMessenger]_vars

(* ---- the GasFeeController on its own ---- *)
Init ==
    /\ GasFeeInitial
    /\ ComposableInitial([c \in Children |-> "s0"])
    /\ TokenRatesInitial(DefaultInterval)
    /\ MessengerInitial({}, {})

Next ==
    \/ getGasFeeEstimatesAndStartPolling
    \/ timerTick
    \/ fetchSettle
    \/ startResume
    \/ disconnectPoller
    \/ destroy

Spec == Init /\ [][Next]_vars

TypeOK ==
    /\ pollCount \in (-MaxUnderflow)..MaxPollCount
    /\ fetchCount \in 0..MaxFetch
    /\ Len(pending) <= MaxPending
    /\ destroyed \in BOOLEAN

(* ======================= the claims ======================= *)

\* C1: at most one refresh (fetch collaborator called, result or error not
\* yet handled) is in progress at any time.
C1_AtMostOneRefreshInFlight == Cardinality(InFlight) <= 1

\* C2: a timer tick that fires while a refresh is in flight is dropped: it
\* does not call the fetch collaborator.
C2_TickDroppedWhileInFlight ==
    [][(ev'.op = "tick" /\ InFlight # {}) => fetchCount' = fetchCount]_vars

\* C3: disconnectPoller called with pollCount = 0 raises RefCountUnderflow
\* and leaves pollCount, the timer and the snapshot unchanged.
C3_StopAtZeroRaises ==
    [][(ev'.op = "disconnectPoller" /\ pollCount = 0)
         => /\ ev'.err = "RefCountUnderflow"
            /\ pollCount' = pollCount
            /\ timers' = timers
            /\ state' = state]_vars

\* C4: pollCount is never negative.
C4_PollCountNonNegative == pollCount >= 0

\* C5: the repeating timer is armed if and only if pollCount > 0.
C5_ArmedIffPollCountPositive == (timers # {}) <=> (pollCount > 0)

\* C5 witness: a start call has just armed the timer with its 0 -> 1
\* increment, after pollCount had been driven below zero earlier or not.
C5_Witness ==
    /\ ev.op = "startResume"
    /\ ev.pc0 = 0
    /\ pollCount = 1
    /\ timers # {}

\* C6: a start call performs a fetch of its own if and only if its increment
\* of pollCount is the 0 -> 1 transition.  (Stated for increments from a
\* pollCount >= 0, so that a violation does not rest on an underflow.)
C6_FetchIffZeroToOne ==
    ((ev.op = "startResume" \/ (ev.op = "start" /\ ~ev.fetched)) /\ ev.pc0 >= 0)
        => (ev.fetched <=> ev.pc0 = 0)

\* C7: when disconnectPoller brings pollCount to 0 the timer is disarmed and
\* the snapshot is the default one, and no timer tick starts a fetch until
\* start is called again.
C7_StopToZeroEndsPolling ==
    /\ (ev.op = "disconnectPoller" /\ pollCount = 0)
           => (timers = {} /\ state = defaultState)
    /\ idleSinceStop => ev.op # "tick"

C9_InFlightRefreshStillApplied ==
    [][(ev'.op = "fetchSettle" /\ ev'.ok /\ ev'.beganPos /\ ~destroyed)
         => /\ state' = newEstimatesOf(ev'.got)
            /\ state'.gasFeeEstimates = ev'.got]_vars

\* C9 witness: such a refresh has resolved after disconnectPoller had
\* brought pollCount to 0 and reset the state.
C9_Witness ==
    /\ ev.op = "fetchSettle"
    /\ ev.ok
    /\ ev.beganPos
    /\ ~destroyed
    /\ pollCount = 0
    /\ timers = {}
    /\ state.gasFeeEstimates = ev.got

C11_SecondStopDeactivates ==
    [][/\ (ev'.op = "startResume" \/ (ev'.op = "start" /\ ~ev'.fetched))
            => pollCount' = pollCount + 1
       /\ (ev'.op = "disconnectPoller" /\ pollCount = 2)
            => /\ pollCount' = 1
               /\ timers' = timers
               /\ timers' # {}
               /\ state' = state
       /\ (ev'.op = "disconnectPoller" /\ pollCount = 1)
            => /\ pollCount' = 0
               /\ timers' = {}]_vars

\* C11 witness: one of two callers has just stopped; polling goes on with
\* the fetched snapshot still in the state.
C11_Witness ==
    /\ ev.op = "disconnectPoller"
    /\ ev.pc0 = 2
    /\ pollCount = 1
    /\ timers # {}
    /\ state # defaultState

\* C12 (as claimed): when a start call that arrived after pollCount had
\* returned to 0 completes, the state holds no estimates of a fetch begun
\* before that return to 0.  (Stated for the estimates of a timer tick's
\* refresh, which begins while pollCount is positive.)
C12_NoStaleDataForNewCaller ==
    [][/\ \A i \in 1..Len(pending) :
            (/\ ev'.op = "startResume"
             /\ pending[i].phase = "resume"
             /\ ~pendOld[i]
             /\ pending' = RemoveAt(pending, i)
             /\ pendOld' = RemoveAt(pendOld, i))
                => stateAge' # "inflightTick"
       /\ (ev'.op = "start" /\ ~ev'.fetched)
            => stateAge' # "inflightTick"]_vars

\* C12 (amended): the state never holds estimates that had been applied to
\* it before pollCount last returned to 0; what it holds after that return
\* comes from a fetch begun since, or from one that was still in flight.
C12_NoDataAppliedBeforeStop ==
    /\ stateAge # "previous"
    /\ state # defaultState
         => stateAge \in {"current", "inflightTick", "inflightStart"}

\* C12 witness: a start that arrived after the stop has completed and the
\* state holds the estimates of a refresh that was in flight at the stop.
C12_Witness ==
    /\ ev.op = "startResume"
    /\ idleSinceStop = FALSE
    /\ stateAge = "inflightTick"
    /\ state # defaultState
    /\ pollCount > 0

\* C13: a refresh either leaves the snapshot as it was or replaces it by a
\* whole snapshot, both fields derived from the one payload it fetched.
C13_NoPartialWrite ==
    [][ev'.op = "fetchSettle"
         => \/ state' = state
            \/ /\ ev'.ok
               /\ state'.gasFeeEstimates = ev'.got
               /\ state'.legacyGasPriceEstimates =
                    [low    |-> [gasPrice |-> ev'.got.low.suggestedMaxFeePerGas],
                     medium |-> [gasPrice |-> ev'.got.medium.suggestedMaxFeePerGas],
                     high   |-> [gasPrice |-> ev'.got.high.suggestedMaxFeePerGas]]
      ]_vars

\* C13 witness: a refresh has replaced a fetched snapshot by the snapshot of
\* another payload.
C13_Witness ==
    /\ ev.op = "fetchSettle"
    /\ ev.ok
    /\ ev.got = GasFeeEstimates(5)
    /\ state.gasFeeEstimates = GasFeeEstimates(5)
    /\ state.legacyGasPriceEstimates.low.gasPrice = 5
    /\ fetchCount >= 2

\* C17: after destroy the timer is not armed and pollCount is 0, and as long
\* as start is not called again no timer is armed and no tick fetches.
C17_DestroyEndsPolling ==
    /\ ev.op = "destroy" => (timers = {} /\ pollCount = 0)
    /\ quietSinceDestroy => (timers = {} /\ ev.op # "tick")

(* ---- claims about the ComposableController (SpecComposable) ---- *)

\* the children of the current list
Listed == {internalControllers[i] : i \in DOMAIN internalControllers}

\* the last child of list l that reports name n
LastNamed(l, n) ==
    l[CHOOSE i \in DOMAIN l :
          /\ NameOf(l[i]) = n
          /\ \A j \in DOMAIN l : NameOf(l[j]) = n => j <= i]

\* C14: a state change of a child that is not in the current list does not
\* modify the aggregate, and a state change of a child in the list causes
\* exactly one aggregate update, however often the list was set.
C14_OldSubscriptionsTornDown ==
    [][cev'.op = "childUpdate"
         => /\ cev'.child \in Listed => cev'.deliveries = 1
            /\ cev'.child \notin Listed => composed' = composed]_vars

\* C15: for every child of the list whose name is unique in the list, the
\* aggregate's entry under that name is the child's current state.
C15_AggregateTracksChildren ==
    \A c \in Listed :
        (\A d \in Listed : NameOf(d) = NameOf(c) => d = c)
            => composed[NameOf(c)] = childState[c]

\* C16: setting a list raises no error and leaves, under every name of the
\* list, the last child of that name in the context and the state that
\* child had in the aggregate; a state change of any child of the list is
\* written to the slot of its name.
C16_LaterChildOverwritesSlot ==
    [][/\ cev'.op = "setControllers"
            => /\ cev'.err = "none"
               /\ \A n \in Names :
                    (\E i \in DOMAIN internalControllers' :
                         NameOf(internalControllers'[i]) = n)
                      => /\ context'[n] = LastNamed(internalControllers', n)
                         /\ composed'[n] =
                              childState[LastNamed(internalControllers', n)]
       /\ (cev'.op = "childUpdate" /\ cev'.child \in Listed)
            => composed'[NameOf(cev'.child)] = childState'[cev'.child]]_vars

\* C16 witness: children 1 and 3 (same name) are both in the list, 3 after
\* 1; the context holds 3, and the earlier child 1 has just written its
\* state to the shared slot, which now differs from the state of 3.
C16_Witness ==
    /\ internalControllers = <<1, 3>>
    /\ context["A"] = 3
    /\ cev.op = "childUpdate"
    /\ cev.child = 1
    /\ composed["A"] = childState[1]
    /\ childState[1] # childState[3]

(* ---- claims about the TokenRatesController ---- *)

\* C18: setting the polling interval clears the timer armed before and arms
\* a new one: in every state exactly one timer is armed, it is the one the
\* controller holds the handle of, and its interval is the interval set most
\* recently.
C18_OneTimerWithLatestInterval ==
    /\ Cardinality(tokenTimers) = 1
    /\ \A t \in tokenTimers : t.id = handle /\ t.interval = lastInterval

\* the interval has been set twice since construction, the second time to
\* a value other than the default
C18_Witness ==
    /\ tev.op = "set_interval"
    /\ handle = 1
    /\ lastInterval # DefaultInterval

\* C19: a refresh invoked while the controller is disabled or its token list
\* is empty (directly, by a tick or by a setter) does not call the fetch
\* collaborator, suspends nothing and leaves the rates unchanged.
C19_NoFetchWhenDisabledOrEmpty ==
    [][(tev'.refreshed /\ (disabled' \/ tokenList' = <<>>))
          => /\ tokenFetchCount' = tokenFetchCount
             /\ tokenPending' = tokenPending
             /\ contractExchangeRates' = contractExchangeRates]_vars

\* a tick has fired on a disabled controller that has tokens to price
C19_Witness ==
    /\ tev.op = "tick"
    /\ disabled
    /\ tokenList # <<>>
    /\ ~tev.fetched

\* C20: every tick of the armed timer invokes a refresh (which calls the
\* fetch collaborator unless the controller is disabled or has no tokens);
\* the promise of a refresh run under safelyExecute resolves whether the
\* refresh succeeded or failed, and a failed one leaves the rates and the
\* armed timer as they were.
C20_TickRefreshesFailureSwallowed ==
    [][/\ tev'.op = "tick"
          => /\ tev'.refreshed
             /\ (~disabled /\ tokenList # <<>>)
                   => tokenFetchCount' = tokenFetchCount + 1
       /\ (tev'.op = "settle" /\ tev'.safely)
          => /\ tev'.promise = "resolved"
             /\ tev'.failed
                   => /\ contractExchangeRates' = contractExchangeRates
                      /\ tokenTimers' = tokenTimers
                      /\ handle' = handle
                      /\ tokenTimers # {}]_vars

\* a tick calls the fetch collaborator after a refresh started by an
\* earlier tick or setter has failed
C20_Witness ==
    /\ tickFailed
    /\ tev.op = "tick"
    /\ tev.fetched


(* ---- further claims about the GasFeeController (Spec) ---- *)

\* C21 as stated: pollCount is 0 at creation, and timer ticks, refresh
\* completions and destroy leave it unchanged.  (Stated for steps taken
\* at a pollCount >= 0, so that a violation does not rest on an underflow.)
C21_OnlyStartAndStopChangePollCount ==
    /\ pollCount = 0
    /\ [][(ev'.op \in {"tick", "fetchSettle", "destroy"} /\ pollCount >= 0)
             => pollCount' = pollCount]_vars

\* C21, amended: pollCount is 0 at creation; timer ticks and refresh
\* completions leave it unchanged; it changes only in a start call, a stop
\* call or destroy, and destroy sets it to 0.
C21_PollCountChangedByStartStopDestroy ==
    /\ pollCount = 0
    /\ [][/\ ev'.op \in {"tick", "fetchSettle"} => pollCount' = pollCount
          /\ ev'.op = "destroy" => pollCount' = 0
          /\ pollCount' # pollCount
                => ev'.op \in {"start", "startResume", "disconnectPoller",
                              "destroy"}]_vars

\* destroy has run on a controller that two callers were polling
C21_Witness ==
    /\ ev.op = "destroy"
    /\ ev.pc0 = 2
    /\ pollCount = 0

\* C28: at most one repeating timer is armed, and an armed timer is the one
\* whose handle the controller holds (so stopPolling can clear it).
C28_AtMostOneTimerAndItsHandleHeld ==
    /\ Cardinality(timers) <= 1
    /\ \A h \in timers : h = intervalId

\* a start call has armed a timer again after an earlier timer was cleared,
\* while another start call is still suspended
C28_Witness ==
    /\ ev.op = "startResume"
    /\ intervalId = 2
    /\ timers = {2}
    /\ pending # <<>>

\* C26: an update that changes nothing (such as the update of a failed
\* refresh, whose mutator returns no replacement) has an empty Patch, leaves
\* the snapshot as it is and publishes nothing; an update that changes the
\* snapshot publishes stateChange exactly once, with the new snapshot.
C26_SilentIffNothingChanged ==
    [][ev'.op = "fetchSettle"
          => /\ ~ev'.ok => state' = state
             /\ state' = state
                   => (patches' = <<>> /\ published' = 0 /\ mirror' = mirror)
             /\ state' # state
                   => (patches' # <<>> /\ published' = 1 /\ mirror' = state')]_vars

\* a refresh has failed on a controller that holds fetched estimates
C26_Witness ==
    /\ ev.op = "fetchSettle"
    /\ ~ev.ok
    /\ ~destroyed
    /\ state # defaultState
    /\ published = 0

\* C27: a subscriber that keeps the snapshot published last by stateChange
\* agrees with the state of the controller (as long as the controller is
\* not destroyed), also after the reset done by the stop that brings
\* pollCount to 0.
C27_SubscriberMirrorsState == ~destroyed => mirror = state

\* the value a start call returns for the payload its own fetch produced
ReturnedFor(got) ==
    IF got \in WellFormed
    THEN [legacyGasPriceEstimates |->
              [low    |-> [gasPrice |-> got.low.suggestedMaxFeePerGas],
               medium |-> [gasPrice |-> got.medium.suggestedMaxFeePerGas],
               high   |-> [gasPrice |-> got.high.suggestedMaxFeePerGas]],
          gasFeeEstimates |-> got]
    ELSE Undefined

\* C29: a start call made at pollCount > 0 returns the current snapshot
\* without calling the fetch collaborator and increments pollCount by 1; a
\* start call made otherwise calls the fetch collaborator and, when it
\* resumes, returns the estimates of that fetch (undefined if it failed) and
\* increments pollCount by 1.
C29_StartReturnsSnapshotOrOwnFetch ==
    [][/\ (ev'.op = "start" /\ pollCount > 0)
          => /\ ret' = state
             /\ fetchCount' = fetchCount
             /\ pollCount' = pollCount + 1
       /\ (ev'.op = "start" /\ pollCount <= 0)
          => /\ fetchCount' = fetchCount + 1
             /\ pollCount' = pollCount
       /\ ev'.op = "startResume"
          => /\ ret' = ReturnedFor(ev'.got)
             /\ pollCount' = pollCount + 1]_vars

\* a start call has returned undefined after its fetch failed, on a
\* controller that another caller was already polling by then
C29_Witness ==
    /\ ev.op = "startResume"
    /\ ~ev.ok
    /\ ret = Undefined
    /\ pollCount = 2

(* ---- a further claim about the ComposableController (SpecComposable) ---- *)

\* C30: when the controllers list is set, the onComposed hooks are called
\* once per entry of the list, in list order, and the context each hook
\* reads is the final context map of the composite, in which the name of
\* every child of the list resolves to a child.
C30_HooksSeeCompleteContext ==
    [][cev'.op = "setControllers"
          => /\ Len(cev'.hooks) = Len(internalControllers')
             /\ \A k \in DOMAIN cev'.hooks :
                   /\ cev'.hooks[k].child = internalControllers'[k]
                   /\ cev'.hooks[k].sees = context'
                   /\ \A j \in DOMAIN internalControllers' :
                         cev'.hooks[k].sees[NameOf(internalControllers'[j])]
                             # NoChild]_vars

\* the hook called first has resolved a sibling that comes after its own
\* controller in the list
C30_Witness ==
    /\ cev.op = "setControllers"
    /\ internalControllers = <<2, 1>>
    /\ cev.hooks[1].child = 2
    /\ cev.hooks[1].sees["A"] = 1

(* ---- claims about the MessageBus (SpecMessenger) ---- *)

\* the publish in progress has delivered to its last listener
PublishDone ==
    /\ pubChannel # NoEvent
    /\ pubNext > Len(pubCopy)

\* how often listener l was invoked by the publish in progress
TimesFired(l) == Cardinality({i \in DOMAIN fired : fired[i] = l})

\* C22: publish invokes the subscribers of the channel in subscription
\* order; when a listener throws, delivery goes on with the next listener
\* and the publish raises no error to the publisher.
C22_SubscriberErrorIsolated ==
    [][/\ (bev'.op = "deliver" /\ bev'.did = "throw")
          => /\ pubNext' = pubNext + 1
             /\ pubErr' = "none"
             /\ reported' = reported \cup {bev'.listener}
       /\ bev'.op = "publishReturn"
          => /\ bev'.err = "none"
             /\ fired = pubCopy]_vars

\* the first of three subscribers threw and the other two were still
\* invoked, in order
C22_Witness ==
    /\ PublishDone
    /\ Len(pubCopy) = NumListeners
    /\ fired = pubCopy
    /\ reported = {pubCopy[1]}

\* C23: a call, publish or subscribe made through the facade with a name
\* outside its allow-list fails with PermissionError whether or not the
\* name exists on the bus: no handler is invoked, no subscription is added
\* and no publish starts.
C23_FacadeRejectsUnlistedNames ==
    [][(bev'.via = "facade" /\ ~bev'.listed)
          => /\ bev'.err = "PermissionError"
             /\ ~bev'.invoked
             /\ subscribers' = subscribers
             /\ pubChannel' = pubChannel
             /\ handlers' = handlers]_vars

\* the facade has refused to call B:bar while B:bar has a handler
C23_Witness ==
    /\ bev.op = "call"
    /\ bev.via = "facade"
    /\ ~bev.listed
    /\ bev.err = "PermissionError"
    /\ "B:bar" \in handlers

\* C24 as stated: a listener is not invoked once its unsubscribe has
\* returned (also when the unsubscribe was made by a listener during the
\* publish), and every listener subscribed when publish is called is
\* invoked exactly once by that publish.
C24_NoFireAfterUnsubscribe ==
    [][/\ bev'.op = "deliver" => bev'.listener \notin gone[pubChannel]
       /\ bev'.op = "publishReturn"
          => \A l \in Range(pubCopy) : TimesFired(l) = 1]_vars

\* C24, amended: a listener is not invoked by a publish that was called
\* after its unsubscribe had returned, and every listener subscribed when
\* publish is called is invoked exactly once by that publish.
C24_NoFireInLaterPublish ==
    [][/\ bev'.op = "deliver" => bev'.listener \notin goneAtCall
       /\ bev'.op = "publishReturn"
          => \A l \in Range(pubCopy) : TimesFired(l) = 1]_vars

\* a publish called after a listener was unsubscribed has delivered to the
\* two listeners that were subscribed
C24_Witness ==
    /\ PublishDone
    /\ goneAtCall # {}
    /\ Len(fired) = 2

\* C25: a publish delivers to the subscriber list as it was when publish
\* was called: a listener unsubscribed during the publish is still invoked
\* by it, and a listener subscribed during the publish is not.
C25_DeliversToCopyTakenAtCall ==
    [][/\ bev'.op = "deliver"
          => (pubNext \in DOMAIN pubCopy /\ bev'.listener = pubCopy[pubNext])
       /\ bev'.op = "publishReturn"
          => \A l \in Listeners :
                 TimesFired(l) = IF l \in Range(pubCopy) THEN 1 ELSE 0]_vars

\* the second listener was unsubscribed by the first and has been invoked
\* all the same; it subscribed a third listener, which is not invoked
C25_Witness ==
    /\ PublishDone
    /\ Len(pubCopy) = 2
    /\ fired = pubCopy
    /\ bev.listener = pubCopy[2]
    /\ bev.did = "subscribe"
    /\ pubCopy[2] \in gone[pubChannel]
    /\ Len(subscribers[pubChannel]) = 2

(* ---- a further claim about the TokenRatesController (SpecTokenRates) ---- *)

\* C31: when refreshes overlap, the rates in the state are never replaced
\* by different rates from a refresh that was started earlier than the
\* refresh they come from, so that once every fetch has settled the state
\* holds the result of the latest refresh that succeeded.
C31_EarlierRefreshNeverOverwritesLater ==
    [][ratesSerial' < ratesSerial
          => contractExchangeRates' = contractExchangeRates]_vars

====
